---- MODULE Spec2Model ----
(***************************************************************************)
(* A model of mne_bids/utils.py: the BIDS filename builder, the BIDS       *)
(* folder builder (with os.makedirs on a small POSIX filesystem) and the   *)
(* dataset_description.json writer.                                        *)
(*                                                                         *)
(* A Python str is a sequence of one-character strings, so that padding,   *)
(* joining and path splitting are computed character by character.  A      *)
(* Python value is a record tagged with its type.                          *)
(***************************************************************************)
EXTENDS Integers, Sequences, FiniteSets, TLC

VARIABLES
    dirs,     \* the paths that exist as directories
    files,    \* path -> content, for the paths that exist as regular files
    call,     \* the invocation a caller has pending (NoCall when none is)
    last,     \* the record of the last finished call: its arguments and outcome
    procs,    \* per process: where its make_bids_folders call stands
    removed   \* has another process removed a directory in this run

vars == <<dirs, files, call, last, procs, removed>>

-----------------------------------------------------------------------------
(* Python values *)

None == [t |-> "NoneType"]
Str(s) == [t |-> "str", v |-> s]
IntV(n) == [t |-> "int", v |-> n]
List(r) == [t |-> "list", v |-> r]      \* r is the repr() of the list

isinstance_str(x) == x.t = "str"

DigitChars == <<"0", "1", "2", "3", "4", "5", "6", "7", "8", "9">>

RECURSIVE Digits(_)
Digits(n) ==
    IF n < 10 THEN <<DigitChars[n + 1]>>
    ELSE Digits(n \div 10) \o <<DigitChars[(n % 10) + 1]>>

RECURSIVE Zeros(_)
Zeros(k) == IF k <= 0 THEN <<>> ELSE <<"0">> \o Zeros(k - 1)

\* str(x), as '%s' % x computes it
PyStr(x) ==
    CASE x.t = "str" -> x.v
      [] x.t = "int" -> IF x.v < 0 THEN <<"-">> \o Digits(-x.v) ELSE Digits(x.v)
      [] x.t = "list" -> x.v
      [] OTHER -> <<"N", "o", "n", "e">>

Ret(v) == [outcome |-> "return", value |-> v, errno |-> "none"]
Raise(kind, errno) == [outcome |-> kind, value |-> None, errno |-> errno]

\* format(n, '') of an int: the numeral, not padded
Format02Plain(n) == IF n < 0 THEN <<"-">> \o Digits(-n) ELSE Digits(n)

\* format(n, '02') of an int: sign, then zeros up to a total width of two
Format02(n) ==
    LET sign == IF n < 0 THEN <<"-">> ELSE <<>>
        digits == Digits(IF n < 0 THEN -n ELSE n)
    IN  sign \o Zeros(2 - Len(sign) - Len(digits)) \o digits

\* '{:02}'.format(x): int.__format__ pads; list.__format__ rejects the spec
format_02(x) ==
    IF x.t = "int" THEN Ret(Str(Format02(x.v)))
    ELSE Raise("TypeError", "none")

\* sep.join(parts)
RECURSIVE str_join(_, _)
str_join(sep, parts) ==
    IF parts = <<>> THEN <<>>
    ELSE IF Len(parts) = 1 THEN parts[1]
    ELSE parts[1] \o sep \o str_join(sep, Tail(parts))

\* posixpath.join(a, b)
os_path_join(a, b) ==
    IF b # <<>> /\ b[1] = "/" THEN b
    ELSE IF a = <<>> \/ a[Len(a)] = "/" THEN a \o b
    ELSE a \o <<"/">> \o b

RECURSIVE os_path_join_all(_)
os_path_join_all(parts) ==
    IF Len(parts) = 1 THEN parts[1]
    ELSE os_path_join_all(<<os_path_join(parts[1], parts[2])>> \o SubSeq(parts, 3, Len(parts)))

-----------------------------------------------------------------------------
(* _check_types *)

\* type(cls) for a class object cls: every class is an instance of type
TypeOfClass(cls) == "type"

\* isinstance(itype, type(str)), itype being the class of a value
isinstance_of_type_str(itype) == TypeOfClass(itype) = TypeOfClass("str")

\* TRUE iff _check_types raises ValueError.  itype ranges over the classes of
\* the values (NoneType for None), so it is never the object None itself.
check_types(variables) ==
    LET types == {variables[i].t : i \in DOMAIN variables}
    IN  \E itype \in types :
            ~isinstance_of_type_str(itype) /\ itype # "None"

-----------------------------------------------------------------------------
(* make_bids_filename *)

Params == <<"subject", "session", "task", "acquisition", "run",
            "processing", "recording">>

Keys == << <<"s", "u", "b">>, <<"s", "e", "s">>, <<"t", "a", "s", "k">>,
           <<"a", "c", "q">>, <<"r", "u", "n">>, <<"p", "r", "o", "c">>,
           <<"r", "e", "c", "o", "r", "d", "i", "n", "g">> >>

\* the value a keyword call binds to a parameter (default None)
Arg(c, name) ==
    IF \E i \in DOMAIN c.kwargs : c.kwargs[i][1] = name
    THEN c.kwargs[CHOOSE i \in DOMAIN c.kwargs : c.kwargs[i][1] = name][2]
    ELSE None

SlotOf(name) == CHOOSE i \in 1..7 : Params[i] = name

\* the pairs as a plain mapping of the keywords would hold them: in the order
\* the keywords were passed, the components not passed after them
order_by_call(c) ==
    LET comps == SelectSeq(c.kwargs, LAMBDA kv : \E i \in 1..7 : Params[i] = kv[1])
        given == [i \in DOMAIN comps |-> <<Keys[SlotOf(comps[i][1])], comps[i][2]>>]
        rest  == SelectSeq([i \in 1..7 |-> <<Keys[i], None>>],
                           LAMBDA kv : \A j \in DOMAIN given : given[j][1] # kv[1])
    IN  given \o rest

\* the OrderedDict `order`: the seven (key, value) pairs in slot order
order(c) == [i \in 1..7 |-> <<Keys[i], Arg(c, Params[i])>>]

RunIndex(ord) == CHOOSE i \in DOMAIN ord : ord[i][1] = Keys[5]

\* line 81: not any(isinstance(ii, str) for ii in order.keys())
no_key_given(ord) == ~ \E i \in DOMAIN ord : isinstance_str(Str(ord[i][1]))

RECURSIVE filename_tokens(_)
filename_tokens(ord) ==
    IF ord = <<>> THEN <<>>
    ELSE (IF ord[1][2] # None
          THEN << ord[1][1] \o <<"-">> \o PyStr(ord[1][2]) >>
          ELSE <<>>) \o filename_tokens(Tail(ord))

make_bids_filename(c) ==
    LET ord0 == order(c)
        r    == RunIndex(ord0)
        run  == ord0[r][2]
        conv == IF run # None /\ ~isinstance_str(run) THEN format_02(run) ELSE Ret(run)
    IN  IF conv.outcome # "return" THEN conv
        ELSE
        LET ord == [i \in DOMAIN ord0 |->
                      IF i = r THEN <<ord0[r][1], conv.value>> ELSE ord0[i]]
            suffix == Arg(c, "suffix")
            prefix == Arg(c, "prefix")
            toks == filename_tokens(ord)
                    \o (IF isinstance_str(suffix) THEN <<suffix.v>> ELSE <<>>)
            filename == str_join(<<"_">>, toks)
        IN  IF check_types([i \in DOMAIN ord |-> ord[i][2]])
            THEN Raise("ValueError", "none")
            ELSE IF no_key_given(ord) THEN Raise("ValueError", "none")
            ELSE IF isinstance_str(prefix)
                 THEN Ret(Str(os_path_join(prefix.v, filename)))
                 ELSE Ret(Str(filename))

-----------------------------------------------------------------------------
(* The filesystem: os.path.split, os.path.exists, os.path.isdir, os.mkdir *)

all_slashes(s) == \A i \in DOMAIN s : s[i] = "/"

RECURSIVE rstrip_slash(_)
rstrip_slash(s) ==
    IF s # <<>> /\ s[Len(s)] = "/" THEN rstrip_slash(SubSeq(s, 1, Len(s) - 1)) ELSE s

last_slash(p) ==
    IF \E i \in DOMAIN p : p[i] = "/"
    THEN CHOOSE i \in DOMAIN p : p[i] = "/" /\ \A j \in DOMAIN p : p[j] = "/" => j <= i
    ELSE 0

\* posixpath.split(p)
os_path_split(p) ==
    LET i == last_slash(p)
        head == SubSeq(p, 1, i)
        tail == SubSeq(p, i + 1, Len(p))
    IN  [head |-> IF head # <<>> /\ ~all_slashes(head) THEN rstrip_slash(head) ELSE head,
         tail |-> tail]

\* the name the kernel resolves: a trailing slash on a directory name is dropped
Norm(p) == IF all_slashes(p) THEN p ELSE rstrip_slash(p)

os_path_exists(d, f, p) == Norm(p) \in d \/ Norm(p) \in DOMAIN f

os_path_isdir(d, p) == Norm(p) \in d

\* the error of walking down to directory p: "" is the working directory
RECURSIVE walk_error(_, _, _)
walk_error(d, f, p) ==
    IF all_slashes(p) \/ p \in d THEN "none"
    ELSE IF p \in DOMAIN f THEN "ENOTDIR"
    ELSE LET e == walk_error(d, f, os_path_split(p).head)
         IN  IF e # "none" THEN e ELSE "ENOENT"

\* os.mkdir(name): the directories afterwards, and the errno raised ("none": created)
os_mkdir(d, f, name) ==
    LET n == Norm(name)
        e == walk_error(d, f, os_path_split(n).head)
    IN  IF n = <<>> THEN [dirs |-> d, err |-> "ENOENT"]
        ELSE IF e # "none" THEN [dirs |-> d, err |-> e]
        ELSE IF n \in d \/ n \in DOMAIN f THEN [dirs |-> d, err |-> "EEXIST"]
        ELSE [dirs |-> d \cup {n}, err |-> "none"]

\* the (head, tail) os.makedirs works on: split again when the name ends in a slash
makedirs_split(name) ==
    LET s == os_path_split(name)
    IN  IF s.tail = <<>> THEN os_path_split(s.head) ELSE s

\* os.makedirs(name), run without interruption
RECURSIVE os_makedirs(_, _, _)
os_makedirs(d, f, name) ==
    LET s == makedirs_split(name)
        descend == s.head # <<>> /\ s.tail # <<>> /\ ~os_path_exists(d, f, s.head)
        sub == IF descend THEN os_makedirs(d, f, s.head) ELSE [dirs |-> d, err |-> "none"]
    IN  IF sub.err \notin {"none", "EEXIST"} THEN sub
        ELSE IF descend /\ s.tail = <<".">> THEN [dirs |-> sub.dirs, err |-> "none"]
        ELSE os_mkdir(sub.dirs, f, name)

\* an except clause that passes on every EEXIST, and one that passes on none
swallow_any_eexist(d, errno, path) == errno = "EEXIST"

swallow_nothing(d, errno, path) == FALSE

\* the except clause of _mkdir_p: TRUE iff the OSError is swallowed
swallowed(d, errno, path) == errno = "EEXIST" /\ os_path_isdir(d, path)

\* _mkdir_p(path), run without interruption
mkdir_p(d, f, path) ==
    LET r == os_makedirs(d, f, path)
    IN  IF r.err = "none" \/ swallowed(r.dirs, r.err, path)
        THEN [dirs |-> r.dirs, err |-> "none"]
        ELSE r

-----------------------------------------------------------------------------
(* make_bids_folders *)

sub_ == <<"s", "u", "b", "-">>
ses_ == <<"s", "e", "s", "-">>

\* a builder that creates the folders whatever make_dir says
always_make_dir(c) == TRUE

\* the condition of line 140, `make_dir is True`
wants_dir(c) == c.make_dir = TRUE

\* the segments with the kind appended before the session
path_segments_kind_first(c) ==
    <<sub_ \o PyStr(c.subject)>>
    \o (IF isinstance_str(c.kind) THEN <<c.kind.v>> ELSE <<>>)
    \o (IF isinstance_str(c.session) THEN <<ses_ \o PyStr(c.session)>> ELSE <<>>)

\* the list `path` of lines 131-135
path_segments(c) ==
    <<sub_ \o PyStr(c.subject)>>
    \o (IF isinstance_str(c.session) THEN <<ses_ \o PyStr(c.session)>> ELSE <<>>)
    \o (IF isinstance_str(c.kind) THEN <<c.kind.v>> ELSE <<>>)

\* the string `path` of lines 136-138
folders_path(c) ==
    LET rel == os_path_join_all(path_segments(c))
    IN  IF isinstance_str(c.root) THEN os_path_join(c.root.v, rel) ELSE rel

\* the call's result and the directories it leaves
make_bids_folders(c, d, f) ==
    IF check_types(<<c.subject, c.kind, c.session, c.root>>)
    THEN [res |-> Raise("ValueError", "none"), dirs |-> d]
    ELSE LET path == folders_path(c)
             m == IF wants_dir(c) THEN mkdir_p(d, f, path) ELSE [dirs |-> d, err |-> "none"]
         IN  IF m.err # "none"
             THEN [res |-> Raise("OSError", m.err), dirs |-> m.dirs]
             ELSE [res |-> Ret(Str(path)), dirs |-> m.dirs]

-----------------------------------------------------------------------------
(* Calls and their records *)

NoCall == [op |-> "none"]

NoLast == [call |-> NoCall, outcome |-> "none", value |-> None, errno |-> "none",
           printed |-> <<>>, follows |-> "none"]

\* what a call works on: the directory of a description, else all its arguments
Target(c) == IF c.op = "make_dataset_description" THEN c.path ELSE c

\* the record of call c ending with result res, having printed `out`; `follows` tells whether the call
\* before it returned and was the same call ("same") or one on the same target
Record(c, res, out) ==
    [call |-> c, outcome |-> res.outcome, value |-> res.value, errno |-> res.errno,
     printed |-> out,
     follows |-> IF last.outcome # "return" \/ last.call.op # c.op THEN "none"
                 ELSE IF last.call = c THEN "same"
                 ELSE IF Target(last.call) = Target(c) THEN "other"
                 ELSE "none"]

Do_make_bids_filename(c) ==
    /\ last' = Record(c, make_bids_filename(c), <<>>)
    /\ UNCHANGED <<dirs, files, procs, removed>>

Do_make_bids_folders(c) ==
    LET r == make_bids_folders(c, dirs, files)
    IN  /\ dirs' = r.dirs
        /\ last' = Record(c, r.res, <<>>)
        /\ UNCHANGED <<files, procs, removed>>

-----------------------------------------------------------------------------
(* make_dataset_description and _write_json *)

description_json == <<"d", "a", "t", "a", "s", "e", "t", "_", "d", "e", "s", "c", "r", "i", "p", "t", "i", "o", "n", ".", "j", "s", "o", "n">>

DescParams == <<"name", "bids_version", "license", "authors", "acknowledgements", "how_to_acknowledge", "funding", "references_and_links", "doi">>

DescKeys == <<<<"N", "a", "m", "e">>,
             <<"B", "I", "D", "S", "V", "e", "r", "s", "i", "o", "n">>,
             <<"L", "i", "c", "e", "n", "s", "e">>,
             <<"A", "u", "t", "h", "o", "r", "s">>,
             <<"A", "c", "k", "n", "o", "w", "l", "e", "d", "g", "e", "m", "e", "n", "t", "s">>,
             <<"H", "o", "w", "T", "o", "A", "c", "k", "n", "o", "w", "l", "e", "d", "g", "e">>,
             <<"F", "u", "n", "d", "i", "n", "g">>,
             <<"R", "e", "f", "e", "r", "e", "n", "c", "e", "s", "A", "n", "d", "L", "i", "n", "k", "s">>,
             <<"D", "a", "t", "a", "s", "e", "t", "D", "O", "I">>>>

\* the OrderedDict `description` of lines 181-189
description(c) == [i \in 1..9 |-> <<DescKeys[i], c[DescParams[i]]>>]

\* the JSON text of a value
json_value(x) ==
    IF x = None THEN <<"n", "u", "l", "l">>
    ELSE IF x.t = "str" THEN <<"\"">> \o x.v \o <<"\"">>
    ELSE PyStr(x)

\* one indented '"key": value' text per item of the dictionary
json_items(desc) ==
    [i \in DOMAIN desc |->
        <<" ", " ", " ", " ", "\"">> \o desc[i][1] \o <<"\"", ":", " ">>
        \o json_value(desc[i][2])]

\* json.dumps(dictionary, indent=4), with the separators of Python 3
json_dumps(desc) ==
    <<"{", "\n">> \o str_join(<<",", "\n">>, json_items(desc)) \o <<"\n", "}">>

\* the content of the file right after open(fname, 'a'): what it held
open_a(f, fname) == IF fname \in DOMAIN f THEN f[fname] ELSE <<>>

\* the content of the file right after open(fname, 'w'): truncated
open_w(f, fname) == <<>>

\* the errno of open(fname, 'w') ("none": opened)
open_error(d, f, fname) ==
    LET e == walk_error(d, f, os_path_split(fname).head)
    IN  IF e # "none" THEN e
        ELSE IF fname \in d THEN "EISDIR"
        ELSE "none"

\* _write_json: the result, the files afterwards and what was printed
write_json(d, f, desc, fname, verbose) ==
    LET json_output == json_dumps(desc)
        e == open_error(d, f, fname)
        content == (open_w(f, fname) \o json_output) \o <<"\n">>
    IN  IF e # "none"
        THEN [res |-> Raise("IOError", e), files |-> f, printed |-> <<>>]
        ELSE [res |-> Ret(None),
              files |-> [p \in DOMAIN f \cup {fname} |-> IF p = fname THEN content ELSE f[p]],
              printed |-> IF verbose = TRUE
                          THEN << (<<"\n">> \o <<"W", "r", "i", "t", "i", "n", "g", " ", "'">> \o fname \o <<"'", ".", ".", ".">>) \o <<"\n">>,
                                  json_output >>
                          ELSE <<>>]

make_dataset_description(c, d, f) ==
    write_json(d, f, description(c), os_path_join(c.path.v, description_json), c.verbose)

Do_make_dataset_description(c) ==
    LET r == make_dataset_description(c, dirs, files)
    IN  /\ files' = r.files
        /\ last' = Record(c, r.res, r.printed)
        /\ UNCHANGED <<dirs, procs, removed>>

-----------------------------------------------------------------------------
(* The inputs *)

Labels == {<<"a">>, <<"b", "1">>}

TextOrNone == {None} \cup {Str(l) : l \in Labels}

RunInts == {-12, -5, 0, 7, 9, 10, 12, 99, 100, 123}

RunValues == {None, Str(<<"7">>)} \cup {IntV(n) : n \in RunInts}

Suffixes == {None, Str(<<"d", ".", "c">>)}

Prefixes == {None, Str(<<"p">>), Str(<<"p", "/">>)}

NonText == {List(<<"[", "'", "a", "'", "]">>), IntV(5)}

Canonical == <<"subject", "session", "task", "acquisition", "run", "processing",
               "recording", "suffix", "prefix">>

Scrambled == <<"prefix", "recording", "run", "suffix", "task", "subject",
               "processing", "session", "acquisition">>

\* a keyword call: the arguments that are given, in the order ord names them
FilenameCall(vals, ord) ==
    [op |-> "make_bids_filename",
     kwargs |-> SelectSeq([i \in 1..9 |-> <<ord[i], vals[ord[i]]>>],
                          LAMBDA kv : kv[2] # None)]

FilenameCalls ==
    {FilenameCall([subject |-> s, session |-> e, task |-> t, acquisition |-> a,
                   run |-> r, processing |-> p, recording |-> g,
                   suffix |-> x, prefix |-> y], o) :
        s \in TextOrNone, e \in TextOrNone, t \in TextOrNone, a \in TextOrNone,
        r \in RunValues, p \in TextOrNone, g \in TextOrNone,
        x \in Suffixes, y \in Prefixes, o \in {Canonical, Scrambled}}

NoArgs == [subject |-> None, session |-> None, task |-> None, acquisition |-> None,
           run |-> None, processing |-> None, recording |-> None,
           suffix |-> None, prefix |-> None]

\* calls that give one component a value that is not text
IllTypedFilenameCalls ==
    {FilenameCall([[[NoArgs EXCEPT !.subject = s] EXCEPT !.run = r] EXCEPT ![n] = b],
                  Canonical) :
        s \in {None, Str(<<"a">>)}, r \in {None, IntV(7)},
        n \in {Params[i] : i \in 1..7}, b \in NonText}
    \ FilenameCalls

FoldersCall(s, e, k, r, m) ==
    [op |-> "make_bids_folders", subject |-> s, session |-> e, kind |-> k,
     root |-> r, make_dir |-> m]

Subjects == {Str(<<"0", "1">>)}
Sessions == {None, Str(<<"t">>)}
Kinds == {None, Str(<<"m", "e", "g">>)}
Roots == {None, Str(<<"r">>)}

FoldersCalls ==
    {FoldersCall(s, e, k, r, m) :
        s \in Subjects, e \in Sessions, k \in Kinds, r \in Roots, m \in BOOLEAN}

IllTypedFoldersCalls ==
    {FoldersCall(s, e, k, r, m) :
        s \in Subjects \cup NonText, e \in Sessions \cup NonText,
        k \in Kinds \cup NonText, r \in Roots \cup NonText, m \in BOOLEAN}
    \ FoldersCalls

\* the calls of the filename builder made next to the folder builder
FewFilenameCalls ==
    {FilenameCall([[[NoArgs EXCEPT !.subject = s] EXCEPT !.suffix = x] EXCEPT !.prefix = y],
                  Canonical) :
        s \in TextOrNone, x \in Suffixes, y \in {None, Str(<<"r">>)}}

RECURSIVE Ancestors(_)
Ancestors(p) == IF p = <<>> \/ all_slashes(p) THEN {} ELSE {p} \cup Ancestors(os_path_split(p).head)

FolderUniverse == UNION {Ancestors(folders_path(c)) : c \in FoldersCalls}

\* a filesystem in which every entry lies in a directory
ConsistentFS(D, F) ==
    \A p \in D \cup F : LET h == os_path_split(p).head IN h = <<>> \/ h \in D

-----------------------------------------------------------------------------
(* Single calls from an empty working directory *)

IdleProcs == <<>>

Init ==
    /\ call \in FilenameCalls \cup IllTypedFilenameCalls
                \cup FoldersCalls \cup IllTypedFoldersCalls
    /\ dirs = {}
    /\ files = <<>>
    /\ last = NoLast
    /\ procs = IdleProcs
    /\ removed = FALSE

Call_make_bids_filename ==
    /\ call.op = "make_bids_filename"
    /\ Do_make_bids_filename(call)
    /\ call' = NoCall

Call_make_bids_folders ==
    /\ call.op = "make_bids_folders"
    /\ Do_make_bids_folders(call)
    /\ call' = NoCall

Next == Call_make_bids_filename \/ Call_make_bids_folders

Spec == Init /\ [][Next]_vars

-----------------------------------------------------------------------------
(* Any number of calls, from any filesystem *)

InitFolders ==
    /\ \E D \in SUBSET FolderUniverse : \E F \in SUBSET (FolderUniverse \ D) :
          /\ ConsistentFS(D, F)
          /\ dirs = D
          /\ files = [p \in F |-> <<>>]
    /\ call = NoCall
    /\ last = NoLast
    /\ procs = IdleProcs
    /\ removed = FALSE

Any_make_bids_folders ==
    \E c \in FoldersCalls : Do_make_bids_folders(c) /\ UNCHANGED call

Any_make_bids_filename ==
    \E c \in FewFilenameCalls : Do_make_bids_filename(c) /\ UNCHANGED call

NextFolders == Any_make_bids_folders \/ Any_make_bids_filename

SpecFolders == InitFolders /\ [][NextFolders]_vars

-----------------------------------------------------------------------------
(* What the calls are expected to give, stated without the code's helpers *)

IsTextOrNone(x) == x.t \in {"str", "NoneType"}

IsFilename(c) == c.op = "make_bids_filename"
IsFolders(c) == c.op = "make_bids_folders"

\* a filename call whose values are all of the documented types
WellTypedFilename(c) ==
    /\ IsFilename(c)
    /\ \A i \in 1..7 : Params[i] # "run" => IsTextOrNone(Arg(c, Params[i]))
    /\ Arg(c, "run").t \in {"str", "int", "NoneType"}
    /\ IsTextOrNone(Arg(c, "suffix")) /\ IsTextOrNone(Arg(c, "prefix"))

WellTypedFolders(c) ==
    /\ IsFolders(c)
    /\ c.subject.t = "str"
    /\ IsTextOrNone(c.session) /\ IsTextOrNone(c.kind) /\ IsTextOrNone(c.root)

TwoDigits(n) == <<DigitChars[(n \div 10) + 1], DigitChars[(n % 10) + 1]>>

\* the text of a run value: two digits for 0..99, else the plain numeral
RunText(x) ==
    IF x.t = "str" THEN x.v
    ELSE IF x.v >= 0 /\ x.v <= 99 THEN TwoDigits(x.v)
    ELSE IF x.v < 0 THEN <<"-">> \o Digits(-x.v)
    ELSE Digits(x.v)

run_ == <<"r", "u", "n", "-">>

RECURSIVE ExpectedTokens(_, _)
ExpectedTokens(c, i) ==
    IF i = 0 THEN <<>>
    ELSE ExpectedTokens(c, i - 1)
         \o (IF Arg(c, Params[i]) = None THEN <<>>
             ELSE IF Params[i] = "run" THEN <<run_ \o RunText(Arg(c, "run"))>>
             ELSE <<Keys[i] \o <<"-">> \o Arg(c, Params[i]).v>>)

RECURSIVE Glued(_)
Glued(parts) ==
    IF parts = <<>> THEN <<>>
    ELSE Glued(SubSeq(parts, 1, Len(parts) - 1))
         \o (IF Len(parts) > 1 THEN <<"_">> ELSE <<>>) \o parts[Len(parts)]

ExpectedFilename(c) ==
    LET name == Glued(ExpectedTokens(c, 7)
                      \o (IF Arg(c, "suffix") = None THEN <<>> ELSE <<Arg(c, "suffix").v>>))
        pre == Arg(c, "prefix")
    IN  IF pre = None THEN name
        ELSE IF pre.v[Len(pre.v)] = "/" THEN pre.v \o name
        ELSE pre.v \o <<"/">> \o name

HasNonText(c) ==
    \/ /\ IsFilename(c)
       /\ \E i \in 1..7 :
            LET x == Arg(c, Params[i])
            IN  ~IsTextOrNone(x) /\ ~(Params[i] = "run" /\ x.t = "int")
    \/ /\ IsFolders(c)
       /\ \E x \in {c.subject, c.session, c.kind, c.root} : ~IsTextOrNone(x)

\* C2: a non-text value (a list, a number) given to a component of
\* make_bids_filename (other than an integer run) or to subject, session, kind
\* or root of make_bids_folders makes the call fail with a type-validity error.
C2_NonTextRejected ==
    HasNonText(last.call) => last.outcome \in {"ValueError", "TypeError"}

RECURSIVE SplitOn(_, _)
SplitOn(s, ch) ==
    IF \E i \in DOMAIN s : s[i] = ch
    THEN LET i == CHOOSE k \in DOMAIN s : s[k] = ch /\ \A j \in 1..(k - 1) : s[j] # ch
         IN  <<SubSeq(s, 1, i - 1)>> \o SplitOn(SubSeq(s, i + 1, Len(s)), ch)
    ELSE <<s>>

\* the run tokens of a returned filename: the '_'-separated parts of its last
\* path segment that begin with 'run-'
RunTokens(name) ==
    LET segs == SplitOn(name, "/")
    IN  SelectSeq(SplitOn(segs[Len(segs)], "_"),
                  LAMBDA t : Len(t) >= 4 /\ SubSeq(t, 1, 4) = run_)

IsDigit(ch) == \E i \in DOMAIN DigitChars : DigitChars[i] = ch

IntRunReturned ==
    /\ WellTypedFilename(last.call)
    /\ Arg(last.call, "run").t = "int"
    /\ last.outcome = "return"

\* C3 as stated: every integer run gives 'run-' followed by exactly two decimal
\* digits; a run that is text is emitted unchanged.
C3_AlwaysTwoDigits ==
    /\ IntRunReturned =>
         LET toks == RunTokens(last.value.v)
         IN  /\ Len(toks) = 1
             /\ Len(toks[1]) = 6
             /\ IsDigit(toks[1][5]) /\ IsDigit(toks[1][6])
    /\ (WellTypedFilename(last.call) /\ Arg(last.call, "run").t = "str") =>
         RunTokens(last.value.v) = <<run_ \o Arg(last.call, "run").v>>

\* C3 amended: an integer run from 0 to 99 gives 'run-' followed by exactly two
\* decimal digits, zero-padded on the left; a larger one gives all its digits,
\* a negative one its minus sign and digits; a run that is text is unchanged.
C3_TwoDigitsUpTo99 ==
    /\ IntRunReturned =>
         LET toks == RunTokens(last.value.v)
             n == Arg(last.call, "run").v
         IN  /\ Len(toks) = 1
             /\ (n >= 0 /\ n <= 99) =>
                    /\ Len(toks[1]) = 6
                    /\ toks[1][5] = DigitChars[(n \div 10) + 1]
                    /\ toks[1][6] = DigitChars[(n % 10) + 1]
             /\ n > 99 => toks[1] = run_ \o Digits(n) /\ Len(toks[1]) > 6
             /\ n < 0 => toks[1] = run_ \o <<"-">> \o Digits(-n)
    /\ (WellTypedFilename(last.call) /\ Arg(last.call, "run").t = "str") =>
         RunTokens(last.value.v) = <<run_ \o Arg(last.call, "run").v>>

C3_Witness ==
    /\ IntRunReturned
    /\ Arg(last.call, "run").v = 7
    /\ Arg(last.call, "subject") # None
    /\ RunTokens(last.value.v) = << <<"r", "u", "n", "-", "0", "7">> >>

\* C4: make_bids_filename with all seven components absent fails with a value
\* error and returns no filename.
C4_NothingGivenFails ==
    (IsFilename(last.call) /\ \A i \in 1..7 : Arg(last.call, Params[i]) = None)
        => last.outcome = "ValueError"

ExpectedFolder(c) ==
    (IF c.root = None THEN <<>> ELSE c.root.v \o <<"/">>)
    \o sub_ \o c.subject.v
    \o (IF c.session = None THEN <<>> ELSE <<"/">> \o ses_ \o c.session.v)
    \o (IF c.kind = None THEN <<>> ELSE <<"/">> \o c.kind.v)

\* C5: for a text subject and text-or-absent session, kind and root,
\* make_bids_folders returns 'sub-{subject}', then 'ses-{session}', then the
\* kind, as nested segments under root; the returned path does not depend on
\* make_dir, and without make_dir the call always returns.
C5_FolderPath ==
    WellTypedFolders(last.call) =>
        /\ last.outcome = "return" => last.value = Str(ExpectedFolder(last.call))
        /\ last.call.make_dir = FALSE => last.outcome = "return"

C5_Witness ==
    /\ WellTypedFolders(last.call)
    /\ last.outcome = "return"
    /\ last.call.session # None /\ last.call.kind # None /\ last.call.root # None
    /\ last.call.make_dir = TRUE

\* C6: a make_bids_folders call with make_dir=False, and any make_bids_filename
\* call, leaves every directory and file as it was.
C6_NoMutation ==
    [][(\/ IsFilename(last'.call)
        \/ (IsFolders(last'.call) /\ last'.call.make_dir = FALSE))
       => (dirs' = dirs /\ files' = files)]_vars

C6_Witness ==
    /\ IsFolders(last.call)
    /\ last.call.make_dir = FALSE
    /\ last.outcome = "return"
    /\ last.value.v \notin dirs
    /\ dirs # {}

NoNonDirectory(c) == \A a \in Ancestors(folders_path(c)) : a \notin DOMAIN files

CreatingCall(c) == IsFolders(c) /\ WellTypedFolders(c) /\ c.make_dir = TRUE

\* C7: from a filesystem in which no segment of the path is a non-directory,
\* make_bids_folders with make_dir=True succeeds and leaves the path and every
\* parent segment a directory; a further call with the same arguments succeeds
\* too and leaves the filesystem as the call before it left it.
C7_Idempotent ==
    [][CreatingCall(last'.call) =>
        /\ NoNonDirectory(last'.call) =>
              /\ last'.outcome = "return"
              /\ dirs' = dirs \cup Ancestors(folders_path(last'.call))
              /\ files' = files
        /\ (last.call = last'.call /\ last.outcome = "return") =>
              /\ last'.outcome = "return"
              /\ dirs' = dirs
              /\ files' = files]_vars

C7_Witness ==
    /\ CreatingCall(last.call)
    /\ last.follows = "same"
    /\ last.outcome = "return"
    /\ Cardinality(Ancestors(last.value.v)) = 4
    /\ Ancestors(last.value.v) \subseteq dirs

\* C9: _mkdir_p swallows only 'already exists' on a directory: when the path is
\* a regular file the call fails with EEXIST, when a parent segment is one it
\* fails with the error of the creation, and a call that returns leaves the
\* path a directory.
C9_OnlyDirectoryTolerated ==
    [][CreatingCall(last'.call) =>
        LET path == folders_path(last'.call)
        IN  /\ path \in DOMAIN files =>
                (last'.outcome = "OSError" /\ last'.errno = "EEXIST" /\ last'.value = None)
            /\ (\E a \in Ancestors(path) \ {path} : a \in DOMAIN files) =>
                (last'.outcome = "OSError" /\ last'.errno = "ENOTDIR" /\ last'.value = None)
            /\ last'.outcome = "return" => path \in dirs'
            /\ files' = files]_vars

C9_Witness ==
    /\ CreatingCall(last.call)
    /\ last.outcome = "OSError"
    /\ last.errno = "EEXIST"
    /\ folders_path(last.call) \in DOMAIN files
    /\ Cardinality(Ancestors(folders_path(last.call))) >= 3

-----------------------------------------------------------------------------
(* Descriptions written again and again *)

DescCall(path, fields, verbose) ==
    [op |-> "make_dataset_description", path |-> path, name |-> fields[1],
     bids_version |-> fields[2], license |-> fields[3], authors |-> fields[4],
     acknowledgements |-> fields[5], how_to_acknowledge |-> fields[6],
     funding |-> fields[7], references_and_links |-> fields[8], doi |-> fields[9],
     verbose |-> verbose]

\* no field given, one field given, or every field given
DescFields ==
    {[i \in 1..9 |-> None], [i \in 1..9 |-> Str(<<"x", DigitChars[i]>>)]}
    \cup {[i \in 1..9 |-> IF i = k THEN Str(<<"y">>) ELSE None] : k \in 1..9}

dir_d == <<"d">>
dir_e == <<"e">>
file_f == <<"f">>
missing_n == <<"n">>

DescPaths == {Str(dir_d), Str(dir_e), Str(file_f), Str(missing_n)}

DescCalls == {DescCall(p, x, v) : p \in DescPaths, x \in DescFields, v \in BOOLEAN}

\* d is a directory, with or without an older description; e is a directory in
\* which the description's name is a directory; f is a regular file
InitDesc ==
    /\ dirs = {dir_d, dir_e, os_path_join(dir_e, description_json)}
    /\ \/ files = [p \in {file_f} |-> <<>>]
       \/ files = [p \in {file_f, os_path_join(dir_d, description_json)} |->
                      IF p = file_f THEN <<>> ELSE <<"{", "}", "\n">>]
    /\ call = NoCall
    /\ last = NoLast
    /\ procs = IdleProcs
    /\ removed = FALSE

Any_make_dataset_description ==
    \E c \in DescCalls : Do_make_dataset_description(c) /\ UNCHANGED call

NextDesc == Any_make_dataset_description

SpecDesc == InitDesc /\ [][NextDesc]_vars

IsDescription(c) == c.op = "make_dataset_description"

RECURSIVE ExpectedLines(_, _)
ExpectedLines(c, i) ==
    IF i = 0 THEN <<>>
    ELSE ExpectedLines(c, i - 1)
         \o <<" ", " ", " ", " ", "\"">> \o DescKeys[i] \o <<"\"", ":", " ">>
         \o (IF c[DescParams[i]] = None THEN <<"n", "u", "l", "l">>
             ELSE <<"\"">> \o c[DescParams[i]].v \o <<"\"">>)
         \o (IF i < 9 THEN <<",">> ELSE <<>>) \o <<"\n">>

ExpectedDocument(c) == <<"{", "\n">> \o ExpectedLines(c, 9) \o <<"}", "\n">>

\* C8: after a successful make_dataset_description call, whatever calls and
\* file content came before, dataset_description.json in the directory holds
\* exactly the document of that call: one JSON object with the nine keys in
\* order, absent fields as null, and a trailing newline.
C8_LastDocumentOnly ==
    (IsDescription(last.call) /\ last.outcome = "return") =>
        LET fname == last.call.path.v \o <<"/">> \o description_json
        IN  /\ fname \in DOMAIN files
            /\ files[fname] = ExpectedDocument(last.call)

C8_Witness ==
    /\ IsDescription(last.call)
    /\ last.outcome = "return"
    /\ last.follows = "other"
    /\ \A i \in 1..9 : last.call[DescParams[i]] = None

-----------------------------------------------------------------------------
(* Concurrent make_bids_folders calls for one path, system call by system call *)

NProcs == 2

Procs == 1..NProcs

\* the calls that create their path
CreatingCalls == {c \in FoldersCalls : c.make_dir = TRUE}

\* a process before its call: the frames of os.makedirs it is in (innermost
\* last), the errno it holds, and what has happened to it so far
FreshProc ==
    [pc |-> "start", stack |-> <<>>, err |-> "none",
     created |-> FALSE, tolerated |-> FALSE, raced |-> FALSE]

InitConc ==
    /\ call \in CreatingCalls
    /\ \E D \in SUBSET Ancestors(folders_path(call)) :
       \E F \in SUBSET (Ancestors(folders_path(call)) \ D) :
          /\ ConsistentFS(D, F)
          /\ dirs = D
          /\ files = [p \in F |-> <<>>]
    /\ last = NoLast
    /\ procs = [p \in Procs |-> FreshProc]
    /\ removed = FALSE

\* where os.makedirs(name) starts: at the exists() test of line `if head and
\* tail and not path.exists(head)`, or straight at mkdir(name)
makedirs_entry(name) ==
    LET s == makedirs_split(name)
    IN  IF s.head # <<>> /\ s.tail # <<>> THEN "exists" ELSE "mkdir"

Top(stack) == stack[Len(stack)]
Pop(stack) == SubSeq(stack, 1, Len(stack) - 1)

\* make_bids_folders up to its first system call: the type check, the path,
\* and the entry into _mkdir_p and os.makedirs
Proc_start(p) ==
    /\ procs[p].pc = "start"
    /\ LET path == folders_path(call)
       IN  procs' = [procs EXCEPT ![p] =
              IF check_types(<<call.subject, call.kind, call.session, call.root>>)
              THEN [@ EXCEPT !.pc = "raised", !.err = "ValueError"]
              ELSE IF ~wants_dir(call) THEN [@ EXCEPT !.pc = "returned"]
              ELSE [@ EXCEPT !.pc = makedirs_entry(path), !.stack = <<path>>]]
    /\ UNCHANGED <<dirs, files, call, last, removed>>

\* os.path.exists(head) in os.makedirs: recurse on head when it is missing
Proc_exists(p) ==
    /\ procs[p].pc = "exists"
    /\ LET head == makedirs_split(Top(procs[p].stack)).head
       IN  procs' = [procs EXCEPT ![p] =
              IF os_path_exists(dirs, files, head)
              THEN [@ EXCEPT !.pc = "mkdir"]
              ELSE [@ EXCEPT !.pc = makedirs_entry(head),
                             !.stack = procs[p].stack \o <<head>>]]
    /\ UNCHANGED <<dirs, files, call, last, removed>>

\* os.mkdir(name) in the innermost frame: an inner frame's EEXIST is caught by
\* the frame above it, any other error unwinds to _mkdir_p
Proc_mkdir(p) ==
    /\ procs[p].pc = "mkdir"
    /\ LET name == Top(procs[p].stack)
           outer == Len(procs[p].stack) = 1
           r == os_mkdir(dirs, files, name)
       IN  /\ dirs' = r.dirs
           /\ procs' = [procs EXCEPT ![p] =
                IF r.err = "none" /\ outer
                THEN [@ EXCEPT !.pc = "returned", !.stack = <<>>, !.created = TRUE]
                ELSE IF r.err \in {"none", "EEXIST"} /\ ~outer
                THEN [@ EXCEPT !.pc = "mkdir", !.stack = Pop(procs[p].stack)]
                ELSE IF r.err = "EEXIST"
                THEN [@ EXCEPT !.pc = "isdir", !.stack = <<>>, !.err = "EEXIST"]
                ELSE [@ EXCEPT !.pc = "raised", !.stack = <<>>, !.err = r.err]]
    /\ UNCHANGED <<files, call, last, removed>>

\* the except clause of _mkdir_p: os.path.isdir(path) after EEXIST
Proc_isdir(p) ==
    /\ procs[p].pc = "isdir"
    /\ procs' = [procs EXCEPT ![p] =
          IF swallowed(dirs, procs[p].err, folders_path(call))
          THEN [@ EXCEPT !.pc = "returned", !.err = "none", !.tolerated = TRUE]
          ELSE [@ EXCEPT !.pc = "raised"]]
    /\ UNCHANGED <<dirs, files, call, last, removed>>

\* another process removes an empty directory of the path
Remove(x) ==
    /\ x \in dirs
    /\ \A q \in dirs \cup DOMAIN files : os_path_split(q).head # x
    /\ dirs' = dirs \ {x}
    /\ removed' = TRUE
    /\ procs' = [p \in Procs |->
          IF procs[p].pc = "isdir" /\ x = folders_path(call)
          THEN [procs[p] EXCEPT !.raced = TRUE]
          ELSE procs[p]]
    /\ UNCHANGED <<files, call, last>>

NextConc ==
    \/ \E p \in Procs : Proc_start(p)
    \/ \E p \in Procs : Proc_exists(p)
    \/ \E p \in Procs : Proc_mkdir(p)
    \/ \E p \in Procs : Proc_isdir(p)
    \/ \E x \in Ancestors(folders_path(call)) : Remove(x)

SpecConc == InitConc /\ [][NextConc]_vars

FailedOnExists(p) == procs[p].pc = "raised" /\ procs[p].err = "EEXIST"

\* C10 as stated: when no process removes a directory every concurrent call
\* returns and the path is a directory at the end; a call fails on 'already
\* exists' only when the directory is removed between its failed creation
\* attempt and its is-directory check.
C10_CreatorsTolerated ==
    /\ ~removed =>
          \A p \in Procs :
             /\ procs[p].pc # "raised"
             /\ procs[p].pc = "returned" => folders_path(call) \in dirs
    /\ \A p \in Procs : FailedOnExists(p) => procs[p].raced

\* C10 amended: the same, for a path no segment of which is a non-directory;
\* a call fails on 'already exists' only when the path is a regular file or
\* the directory is removed between its failed creation attempt and its
\* is-directory check.
C10_CreatorsToleratedAmongDirectories ==
    /\ (~removed /\ NoNonDirectory(call)) =>
          \A p \in Procs :
             /\ procs[p].pc # "raised"
             /\ procs[p].pc = "returned" => folders_path(call) \in dirs
    /\ \A p \in Procs :
          FailedOnExists(p) => (procs[p].raced \/ folders_path(call) \in DOMAIN files)

C10_Witness ==
    /\ ~removed
    /\ \A p \in Procs : procs[p].pc = "returned"
    /\ \E p, q \in Procs : procs[p].created /\ procs[q].tolerated
    /\ folders_path(call) \in dirs
    /\ Cardinality(Ancestors(folders_path(call))) = 4

====
